---------------------------- MODULE Spec2Model ----------------------------
(***************************************************************************)
(* Antoni's Book Craft: the text sanitizer (cleanText), the document       *)
(* assembly (markdownToParagraphs, downloadWordDocument), the generation   *)
(* service (generateBookContent) and the App component's state machine.    *)
(*                                                                         *)
(* A string is a sequence of UTF-16 code units (naturals); the regular     *)
(* expressions of the source are modelled by the scans they perform.       *)
(***************************************************************************)
EXTENDS Integers, Sequences, FiniteSets, TLC

(***************************************************************************)
(* Characters                                                              *)
(***************************************************************************)
NUL == 0
BS == 8
TAB == 9
LF == 10
VT == 11
CR == 13
US == 31
SP == 32
HASH == 35
LPAREN == 40
RPAREN == 41
STAR == 42
UNDERSCORE == 95
LBRACKET == 91
RBRACKET == 93
BACKTICK == 96
DEL == 127
ZWSP == 8203
ZWJ == 8205
BOM == 65279

\* letters used in the inputs
ChA == 65
ChB == 66
ChS == 83
Cha == 97
Chb == 98

\* /[\x00-\x08\x0B\x0C\x0E-\x1F\x7F]/ with the DEL character left out
IsControlCharNoDel(c) == c \in (0..8) \cup {11, 12} \cup (14..31)

\* /[\x00-\x08\x0B\x0C\x0E-\x1F\x7F]/
IsControlChar(c) == c \in (0..8) \cup {11, 12} \cup (14..31) \cup {127}

\* text.replace(/[\x00-\x08\x0B\x0C\x0E-\x1F\x7F]/g, "")
RemoveControlChars(s) == SelectSeq(s, LAMBDA c : ~IsControlChar(c))

\* /[\u200B-\u200D\uFEFF]/
IsZeroWidth(c) == c \in (8203..8205) \cup {65279}

\* safeText.replace(/[\u200B-\u200D\uFEFF]/g, "")
RemoveZeroWidth(s) == SelectSeq(s, LAMBDA c : ~IsZeroWidth(c))

\* the regular expression class \s, which is also what String.prototype.trim removes
IsWhiteSpace(c) ==
    c \in {9, 10, 11, 12, 13, 32, 160, 5760, 8232, 8233, 8239, 8287, 12288, 65279}
          \cup (8192..8202)

\* the characters the regular expression '.' does not match
IsLineTerminator(c) == c \in {10, 13, 8232, 8233}

(***************************************************************************)
(* cleanText                                                               *)
(***************************************************************************)
NoLineTerminator(s, from, to) ==
    \A k \in from..to : ~IsLineTerminator(s[k])

\* positions j >= from where the closing "**" of a bold span may start
BoldClose(s, from) ==
    {j \in from..(Len(s) - 1) :
        s[j] = STAR /\ s[j + 1] = STAR /\ NoLineTerminator(s, from, j - 1)}

Min(S) == CHOOSE x \in S : \A y \in S : x <= y

\* .replace(/\*\*(.*?)\*\*/g, "$1")
RECURSIVE ReplaceBoldFrom(_, _)
ReplaceBoldFrom(s, i) ==
    IF i > Len(s) THEN <<>>
    ELSE IF i + 1 <= Len(s) /\ s[i] = STAR /\ s[i + 1] = STAR
            /\ BoldClose(s, i + 2) # {}
         THEN LET j == Min(BoldClose(s, i + 2))
              IN SubSeq(s, i + 2, j - 1) \o ReplaceBoldFrom(s, j + 2)
         ELSE <<s[i]>> \o ReplaceBoldFrom(s, i + 1)

ReplaceBold(s) == ReplaceBoldFrom(s, 1)

\* positions j >= from of the closing "*" of an italic span
ItalicClose(s, from) ==
    {j \in from..Len(s) : s[j] = STAR /\ NoLineTerminator(s, from, j - 1)}

\* .replace(/\*(.*?)\*/g, "$1")
RECURSIVE ReplaceItalicFrom(_, _)
ReplaceItalicFrom(s, i) ==
    IF i > Len(s) THEN <<>>
    ELSE IF s[i] = STAR /\ ItalicClose(s, i + 1) # {}
         THEN LET j == Min(ItalicClose(s, i + 1))
              IN SubSeq(s, i + 1, j - 1) \o ReplaceItalicFrom(s, j + 1)
         ELSE <<s[i]>> \o ReplaceItalicFrom(s, i + 1)

\* the emphasis rule left out
ItalicKept(s) == s

ReplaceItalic(s) == ReplaceItalicFrom(s, 1)

\* the lengths k in 1..6 for which #{k}\s matches at position i
HeaderRuns(s, i) ==
    {k \in 1..6 :
        /\ i + k <= Len(s)
        /\ \A m \in i..(i + k - 1) : s[m] = HASH
        /\ IsWhiteSpace(s[i + k])}

\* .replace(/#{1,6}\s/g, "")
RECURSIVE RemoveHeadersFrom(_, _)
RemoveHeadersFrom(s, i) ==
    IF i > Len(s) THEN <<>>
    ELSE IF HeaderRuns(s, i) # {}
         THEN LET k == CHOOSE x \in HeaderRuns(s, i) :
                          \A y \in HeaderRuns(s, i) : y <= x
              IN RemoveHeadersFrom(s, i + k + 1)
         ELSE <<s[i]>> \o RemoveHeadersFrom(s, i + 1)

RemoveHeaders(s) == RemoveHeadersFrom(s, 1)

\* positions k >= from of a ")" that ends the url part \(.*?\)
UrlClose(s, from) ==
    {k \in from..Len(s) : s[k] = RPAREN /\ NoLineTerminator(s, from, k - 1)}

\* positions j >= from of a "](" that ends the label of a link which can be completed
LabelClose(s, from) ==
    {j \in from..(Len(s) - 1) :
        /\ s[j] = RBRACKET
        /\ s[j + 1] = LPAREN
        /\ NoLineTerminator(s, from, j - 1)
        /\ UrlClose(s, j + 2) # {}}

\* .replace(/\[(.*?)\]\(.*?\)/g, "$1")
RECURSIVE ReplaceLinksFrom(_, _)
ReplaceLinksFrom(s, i) ==
    IF i > Len(s) THEN <<>>
    ELSE IF s[i] = LBRACKET /\ LabelClose(s, i + 1) # {}
         THEN LET j == Min(LabelClose(s, i + 1))
                  k == Min(UrlClose(s, j + 2))
              IN SubSeq(s, i + 1, j - 1) \o ReplaceLinksFrom(s, k + 1)
         ELSE <<s[i]>> \o ReplaceLinksFrom(s, i + 1)

ReplaceLinks(s) == ReplaceLinksFrom(s, 1)

\* .replace(/`/g, "")
RemoveBackticks(s) == SelectSeq(s, LAMBDA c : c # BACKTICK)

\* String.prototype.trim
RECURSIVE TrimStart(_)
TrimStart(s) ==
    IF s # <<>> /\ IsWhiteSpace(Head(s)) THEN TrimStart(Tail(s)) ELSE s

RECURSIVE TrimEnd(_)
TrimEnd(s) ==
    IF s # <<>> /\ IsWhiteSpace(s[Len(s)])
    THEN TrimEnd(SubSeq(s, 1, Len(s) - 1))
    ELSE s

Trim(s) == TrimEnd(TrimStart(s))

cleanText(text) ==
    IF text = <<>> THEN <<>>
    ELSE LET safe1 == RemoveControlChars(text)
             safe2 == RemoveZeroWidth(safe1)
             safe3 == RemoveBackticks(ReplaceLinks(RemoveHeaders(
                          ReplaceItalic(ReplaceBold(safe2)))))
         IN Trim(safe3)

(***************************************************************************)
(* markdownToParagraphs                                                    *)
(*                                                                         *)
(* A Paragraph is a record of the options the source passes to docx; an    *)
(* option the source leaves out has the value docx gives it: no heading    *)
(* (0), no style (""), not bidirectional, no alignment ("NONE").           *)
(***************************************************************************)
BlankParagraph ==
    [kind |-> "paragraph", text |-> <<>>, heading |-> 0, style |-> "",
     bidirectional |-> FALSE, alignment |-> "NONE", font |-> "",
     rightToLeft |-> FALSE, bullet |-> FALSE, pageBreakBefore |-> FALSE]

\* new Paragraph({ children: [new PageBreak()] })
PageBreakParagraph == [BlankParagraph EXCEPT !.kind = "pagebreak"]

\* new Paragraph({ children: [new TextRun("")] })
EmptyParagraph == BlankParagraph

\* cleaned.split(/\n+/): the fields between the maximal runs of newlines
RECURSIVE SplitLinesFrom(_, _, _)
SplitLinesFrom(s, i, cur) ==
    IF i > Len(s) THEN <<cur>>
    ELSE IF s[i] = LF
         THEN IF i > 1 /\ s[i - 1] = LF
              THEN SplitLinesFrom(s, i + 1, cur)
              ELSE <<cur>> \o SplitLinesFrom(s, i + 1, <<>>)
         ELSE SplitLinesFrom(s, i + 1, Append(cur, s[i]))

SplitLines(s) == SplitLinesFrom(s, 1, <<>>)

\* lines.map(line => ...): the paragraph of one line
LineParagraph(line, isRtl) ==
    LET trimmed == Trim(line)
    IN IF trimmed = <<>>
       THEN EmptyParagraph
       ELSE [BlankParagraph EXCEPT
                !.text = trimmed,
                !.font = IF isRtl THEN "Traditional Arabic" ELSE "Times New Roman",
                !.rightToLeft = isRtl,
                !.bidirectional = isRtl,
                !.alignment = IF isRtl THEN "RIGHT" ELSE "JUSTIFIED"]

markdownToParagraphs(content, isRtl) ==
    LET lines == SplitLines(cleanText(content))
    IN [i \in 1..Len(lines) |-> LineParagraph(lines[i], isRtl)]

(***************************************************************************)
(* downloadWordDocument: the children of the document's section            *)
(***************************************************************************)
RtlLanguage == "Arabic"

IsRtl(book) == book.language = RtlLanguage

TitleFont(isRtl) == IF isRtl THEN "Traditional Arabic" ELSE "Cambria"

BodyFont(isRtl) == IF isRtl THEN "Traditional Arabic" ELSE "Times New Roman"

\* "ANTONI'S BOOK CRAFT"
BannerText ==
    <<65, 78, 84, 79, 78, 73, 39, 83, 32, 66, 79, 79, 75, 32, 67, 82, 65, 70, 84>>

\* "Written by"
WrittenByText == <<87, 114, 105, 116, 116, 101, 110, 32, 98, 121>>

\* "Table of Contents"
TocText ==
    <<84, 97, 98, 108, 101, 32, 111, 102, 32, 67, 111, 110, 116, 101, 110, 116, 115>>

\* "Daftar Isi"
TocTextRtl == <<68, 97, 102, 116, 97, 114, 32, 73, 115, 105>>

\* "Abstract"
AbstractText == <<65, 98, 115, 116, 114, 97, 99, 116>>

\* "References"
ReferencesText == <<82, 101, 102, 101, 114, 101, 110, 99, 101, 115>>

\* Number.prototype.toString of a positive integer
RECURSIVE DecimalDigits(_)
DecimalDigits(n) ==
    IF n < 10 THEN <<48 + n>> ELSE Append(DecimalDigits(n \div 10), 48 + (n % 10))

\* a heading paragraph of the body: Abstract, a chapter, a section, References
HeadingParagraph(txt, level, isRtl) ==
    [BlankParagraph EXCEPT
        !.text = txt,
        !.heading = level,
        !.bidirectional = isRtl,
        !.alignment = IF isRtl THEN "RIGHT" ELSE "LEFT",
        !.font = TitleFont(isRtl),
        !.rightToLeft = isRtl]

CoverPage(book, year) ==
    LET isRtl == IsRtl(book)
    IN << [BlankParagraph EXCEPT !.text = BannerText, !.alignment = "CENTER",
                                 !.font = "Inter"],
          EmptyParagraph,
          [BlankParagraph EXCEPT !.text = cleanText(book.title), !.style = "CustomTitle"],
          [BlankParagraph EXCEPT !.text = cleanText(book.subtitle),
                                 !.style = "CustomSubtitle"],
          EmptyParagraph,
          [BlankParagraph EXCEPT !.text = WrittenByText, !.alignment = "CENTER",
                                 !.font = BodyFont(isRtl)],
          [BlankParagraph EXCEPT !.text = cleanText(book.author), !.alignment = "CENTER",
                                 !.font = BodyFont(isRtl)],
          [BlankParagraph EXCEPT !.text = DecimalDigits(year), !.alignment = "CENTER",
                                 !.font = BodyFont(isRtl)],
          PageBreakParagraph >>

TableOfContentsBlock(book) ==
    LET isRtl == IsRtl(book)
    IN << [HeadingParagraph(IF isRtl THEN TocTextRtl ELSE TocText, 1, isRtl) EXCEPT
              !.alignment = IF isRtl THEN "RIGHT" ELSE "CENTER"],
          [BlankParagraph EXCEPT !.kind = "toc"],
          PageBreakParagraph >>

AbstractBlock(book) ==
    LET isRtl == IsRtl(book)
    IN <<HeadingParagraph(AbstractText, 1, isRtl)>>
           \o markdownToParagraphs(book.abstract, isRtl)
           \o <<PageBreakParagraph>>

\* one section: its level-2 heading, then its content paragraphs
SectionBlocks(section, isRtl) ==
    <<HeadingParagraph(cleanText(section.title), 2, isRtl)>>
        \o markdownToParagraphs(section.content, isRtl)

\* chapter.sections.flatMap(...)
RECURSIVE SectionsFlatMap(_, _)
SectionsFlatMap(sections, isRtl) ==
    IF sections = <<>> THEN <<>>
    ELSE SectionBlocks(Head(sections), isRtl) \o SectionsFlatMap(Tail(sections), isRtl)

\* one chapter with its sections emitted before its own heading
ChapterBlocksHeadingLast(chapter, isRtl) ==
    SectionsFlatMap(chapter.sections, isRtl)
        \o <<[HeadingParagraph(cleanText(chapter.title), 1, isRtl) EXCEPT
                !.pageBreakBefore = TRUE]>>

\* one chapter: its level-1 heading, then its sections in order
ChapterBlocks(chapter, isRtl) ==
    <<[HeadingParagraph(cleanText(chapter.title), 1, isRtl) EXCEPT
          !.pageBreakBefore = TRUE]>>
        \o SectionsFlatMap(chapter.sections, isRtl)

\* book.chapters.flatMap(...)
RECURSIVE ChaptersFlatMap(_, _)
ChaptersFlatMap(chapters, isRtl) ==
    IF chapters = <<>> THEN <<>>
    ELSE ChapterBlocks(Head(chapters), isRtl) \o ChaptersFlatMap(Tail(chapters), isRtl)

ReferenceParagraph(ref, isRtl) ==
    [BlankParagraph EXCEPT
        !.text = cleanText(ref),
        !.font = BodyFont(isRtl),
        !.rightToLeft = isRtl,
        !.bullet = TRUE,
        !.bidirectional = isRtl,
        !.alignment = IF isRtl THEN "RIGHT" ELSE "LEFT"]

\* the reference list emitted in reverse
ReferencesBlockReversed(b) ==
    LET n == Len(b.references)
    IN <<PageBreakParagraph, HeadingParagraph(ReferencesText, 1, IsRtl(b))>>
           \o [i \in 1..n |-> ReferenceParagraph(b.references[n + 1 - i], IsRtl(b))]

ReferencesBlock(book) ==
    LET isRtl == IsRtl(book)
    IN <<PageBreakParagraph, HeadingParagraph(ReferencesText, 1, isRtl)>>
           \o [i \in 1..Len(book.references) |->
                  ReferenceParagraph(book.references[i], isRtl)]

\* [A-Za-z0-9_], the complement of \W; every character \s matches is in \W
IsWordChar(c) == c \in (48..57) \cup (65..90) \cup (97..122) \cup {UNDERSCORE}

\* .replace(/[\s\W]/g, "_"): an underscore for each character
RECURSIVE ReplaceEachNonWord(_)
ReplaceEachNonWord(s) ==
    IF s = <<>> THEN <<>>
    ELSE <<IF IsWordChar(Head(s)) THEN Head(s) ELSE UNDERSCORE>> \o ReplaceEachNonWord(Tail(s))

\* .replace(/[\s\W]+/g, "_"): an underscore for each maximal run
RECURSIVE CollapseNonWord(_)
CollapseNonWord(s) ==
    IF s = <<>> THEN <<>>
    ELSE IF IsWordChar(Head(s)) THEN <<Head(s)>> \o CollapseNonWord(Tail(s))
    ELSE IF Len(s) > 1 /\ ~IsWordChar(s[2]) THEN CollapseNonWord(Tail(s))
    ELSE <<UNDERSCORE>> \o CollapseNonWord(Tail(s))

\* "_AntoniBookCraft.docx"
FileSuffix ==
    <<95, 65, 110, 116, 111, 110, 105, 66, 111, 111, 107, 67, 114, 97, 102,
    116, 46, 100, 111, 99, 120>>

\* `${cleanText(book.title).replace(/[\s\W]+/g, "_")}_AntoniBookCraft.docx`
ExportFileName(book) == CollapseNonWord(cleanText(book.title)) \o FileSuffix

\* the body of the document: everything from the Abstract heading on
DocumentBody(book) ==
    AbstractBlock(book) \o ChaptersFlatMap(book.chapters, IsRtl(book))
        \o ReferencesBlock(book)

DocumentChildren(book, year) ==
    CoverPage(book, year) \o TableOfContentsBlock(book) \o DocumentBody(book)

(***************************************************************************)
(* State                                                                   *)
(***************************************************************************)
VARIABLES
    \* the sanitizer applied to an input, and applied again to its own output
    \* and the paragraphs markdownToParagraphs makes of the input
    text, once, twice, paragraphs, cleanPc,
    \* the book handed to downloadWordDocument, the year of the clock, the
    \* children of the document built from them, the name the file is saved as
    book, year, doc, filename, docPc,
    \* the page and reference counts handed to generateBookContent, the
    \* chapter and word targets it derives, the response schema it sends
    pageCount, referenceCount, chapterTarget, wordTarget, schema, promptPc,
    \* process.env.API_KEY is set; the App component's state and whether its
    \* mount effect has run; the InputForm's and the BookPreview's state;
    \* whether a render threw and React unmounted the tree
    apiKey, apiKeyValid, effectRan, appState, bookData, errorMsg,
    params, activeChapterIndex, crashed,
    \* the handleGenerate calls awaiting generateBookContent, and the number
    \* of downloadWordDocument calls awaiting Packer.toBlob
    calls, packing,
    \* history: the parameters of every handleGenerate call, the requests sent
    \* to the AI service, the calls that returned a book and those that
    \* threw, the last response that gave a book, the exports started, the
    \* alerts shown, the files saved, the resets and the book the last one dropped
    submitted, requests, successes, failures, lastResponse,
    exports, alerts, saves, resets, droppedBook

cleanVars == <<text, once, twice, paragraphs, cleanPc>>

docVars == <<book, year, doc, filename, docPc>>

promptVars == <<pageCount, referenceCount, chapterTarget, wordTarget, schema, promptPc>>

appVars ==
    <<apiKey, apiKeyValid, effectRan, appState, bookData, errorMsg,
      params, activeChapterIndex, crashed, calls, packing,
      submitted, requests, successes, failures, lastResponse,
      exports, alerts, saves, resets, droppedBook>>

vars == <<cleanVars, docVars, promptVars, appVars>>

\* the values of a part of the state while another part is being exercised
CleanIdle ==
    /\ text = <<>>
    /\ once = <<>>
    /\ twice = <<>>
    /\ paragraphs = <<>>
    /\ cleanPc = "idle"

NoBook == [title |-> <<>>]

DocIdle ==
    /\ book = NoBook
    /\ year = 0
    /\ doc = <<>>
    /\ filename = <<>>
    /\ docPc = "idle"

NoSchema == [type |-> "none"]

PromptIdle ==
    /\ pageCount = 0
    /\ referenceCount = 0
    /\ chapterTarget = 0
    /\ wordTarget = ""
    /\ schema = NoSchema
    /\ promptPc = "idle"

\* useState<BookStructure | null>(null), useState<string | null>(null)
Null == [null |-> TRUE]

NoMsg == "null"

\* the initial state of the InputForm
DefaultParams == [language |-> "Indonesia"]

NoResponse == [kind |-> "none"]

\* the App as first rendered, given whether process.env.API_KEY is set
AppStart(key) ==
    /\ apiKey = key
    /\ apiKeyValid = TRUE
    /\ effectRan = FALSE
    /\ appState = "IDLE"
    /\ bookData = Null
    /\ errorMsg = NoMsg
    /\ params = DefaultParams
    /\ activeChapterIndex = 0
    /\ crashed = FALSE
    /\ calls = <<>>
    /\ packing = 0
    /\ submitted = <<>>
    /\ requests = 0
    /\ successes = 0
    /\ failures = 0
    /\ lastResponse = NoResponse
    /\ exports = 0
    /\ alerts = 0
    /\ saves = 0
    /\ resets = 0
    /\ droppedBook = Null

AppIdle == AppStart(TRUE)

(***************************************************************************)
(* Bounds and inputs of the document assembly                              *)
(***************************************************************************)
MaxChapters == 2
MaxSections == 2
MaxReferences == 2

Languages == {"Indonesia", "Arabic", "English"}

\* section contents: one line; three lines, the middle one blank; two lines
\* after a run of newlines; emphasis markup; nothing
Contents ==
    << <<Cha>>,
       <<Cha, LF, SP, LF, Chb>>,
       <<Cha, LF, LF, Chb>>,
       <<STAR, STAR, Cha, STAR, STAR>>,
       <<>> >>

\* chapter i is titled "A", "B", ...; the sections of the book are titled
\* "S1", "S2", ... in reading order
ChapterTitleOf(i) == <<64 + i>>

SectionOf(n, rot) ==
    [title |-> <<ChS, 48 + n>>,
     content |-> Contents[((n + rot) % Len(Contents)) + 1]]

\* the number of sections of the chapters before chapter c
RECURSIVE SectionsBefore(_, _)
SectionsBefore(shape, c) ==
    IF c <= 1 THEN 0 ELSE SectionsBefore(shape, c - 1) + shape[c - 1]

\* shape[c] is the number of sections of chapter c
Shapes == UNION {[1..n -> 0..MaxSections] : n \in 0..MaxChapters}

ChaptersOf(shape, rot) ==
    [c \in 1..Len(shape) |->
        [title |-> ChapterTitleOf(c),
         sections |-> [j \in 1..shape[c] |->
                          SectionOf(SectionsBefore(shape, c) + j, rot)]]]

\* reference r is "*R1*", "*R2*", ...
ReferencesOf(n) == [r \in 1..n |-> <<STAR, 82, 48 + r, STAR>>]

\* "Zakat on Digital Assets"
ZakatTitle ==
    <<90, 97, 107, 97, 116, 32, 111, 110, 32, 68, 105, 103, 105, 116, 97,
    108, 32, 65, 115, 115, 101, 116, 115>>

\* titles: the fixture; "**A_b**, b!"; an Arabic letter, two spaces and "A"; markup only
Titles ==
    {ZakatTitle,
     <<STAR, STAR, ChA, UNDERSCORE, Chb, STAR, STAR, 44, SP, Chb, 33>>,
     <<1575, SP, SP, ChA>>,
     <<STAR, STAR>>}

\* one small book for each title
TitledBooks ==
    {[title |-> t,
      subtitle |-> <<Chb>>,
      author |-> <<Cha>>,
      abstract |-> Contents[1],
      language |-> lang,
      chapters |-> ChaptersOf(<<1>>, 0),
      references |-> ReferencesOf(1)] : t \in Titles, lang \in Languages}

ShapedBooks ==
    {[title |-> <<ChA, SP, ChB>>,
      subtitle |-> <<Chb>>,
      author |-> <<Cha>>,
      abstract |-> Contents[a],
      language |-> lang,
      chapters |-> ChaptersOf(shape, rot),
      references |-> ReferencesOf(n)] :
        a \in {1, 2, 5}, lang \in Languages, shape \in Shapes,
        rot \in 0..(Len(Contents) - 1), n \in 0..MaxReferences}

Books == ShapedBooks \cup TitledBooks

Years == {2026}

InitDoc ==
    /\ book \in Books
    /\ year \in Years
    /\ doc = <<>>
    /\ filename = <<>>
    /\ docPc = "book"
    /\ CleanIdle
    /\ PromptIdle
    /\ AppIdle

\* new Document({ ..., sections: [{ ..., children: [...] }] })
BuildDocument ==
    /\ docPc = "book"
    /\ doc' = DocumentChildren(book, year)
    /\ docPc' = "built"
    /\ UNCHANGED <<book, year, filename>>
    /\ UNCHANGED <<cleanVars, promptVars, appVars>>

\* const blob = await Packer.toBlob(doc); saveAs(blob, `...`)
SaveFile ==
    /\ docPc = "built"
    /\ filename' = ExportFileName(book)
    /\ docPc' = "saved"
    /\ UNCHANGED <<book, year, doc>>
    /\ UNCHANGED <<cleanVars, promptVars, appVars>>

NextDoc == BuildDocument \/ SaveFile

SpecDoc == InitDoc /\ [][NextDoc]_vars

(***************************************************************************)
(* Bounds and inputs of the sanitizer                                      *)
(***************************************************************************)
MaxMarkupLen == 4
MaxControlLen == 3

\* markup characters and a letter
MarkupAlphabet == {STAR, HASH, BACKTICK, SP, LF, LBRACKET, RBRACKET, LPAREN, RPAREN, Cha}

\* control and zero-width characters, the whitespace the sanitizer keeps, a letter, a star
ControlAlphabet == {NUL, BS, TAB, LF, VT, CR, US, DEL, ZWSP, ZWJ, BOM, Cha, STAR}

StringsUpTo(alphabet, n) == UNION {[1..k -> alphabet] : k \in 0..n}

\* texts without markup: letters only
MaxPlainLen == 2

PlainTexts == StringsUpTo({Cha, Chb}, MaxPlainLen) \ {<<>>}

\* **t**, *t*, a heading marker of k '#' and a space before t, [t](u)
BoldOf(t) == <<STAR, STAR>> \o t \o <<STAR, STAR>>

ItalicOf(t) == <<STAR>> \o t \o <<STAR>>

HeaderOf(k, t) == [i \in 1..k |-> HASH] \o <<SP>> \o t

LinkOf(t, u) == <<LBRACKET>> \o t \o <<RBRACKET, LPAREN>> \o u \o <<RPAREN>>

CodeOf(t) == <<BACKTICK>> \o t \o <<BACKTICK>>

MarkedUpTexts ==
    UNION {{BoldOf(t), ItalicOf(t), CodeOf(t), CodeOf(ItalicOf(t))} \cup
           {HeaderOf(k, t) : k \in 1..6} \cup {LinkOf(t, u) : u \in PlainTexts} :
               t \in PlainTexts}

\* "**bold** and *em* and # Heading and [text](url)"
MarkdownFixture ==
    <<42, 42, 98, 111, 108, 100, 42, 42, 32, 97, 110, 100, 32, 42, 101,
    109, 42, 32, 97, 110, 100, 32, 35, 32, 72, 101, 97, 100, 105, 110,
    103, 32, 97, 110, 100, 32, 91, 116, 101, 120, 116, 93, 40, 117, 114,
    108, 41>>

CleanInputs ==
    StringsUpTo(MarkupAlphabet, MaxMarkupLen) \cup StringsUpTo(ControlAlphabet, MaxControlLen)
        \cup MarkedUpTexts \cup {MarkdownFixture}

InitClean ==
    /\ text \in CleanInputs
    /\ once = <<>>
    /\ twice = <<>>
    /\ paragraphs = <<>>
    /\ cleanPc = "input"
    /\ DocIdle
    /\ PromptIdle
    /\ AppIdle

\* cleanText(text)
CleanOnce ==
    /\ cleanPc = "input"
    /\ once' = cleanText(text)
    /\ cleanPc' = "once"
    /\ UNCHANGED <<text, twice, paragraphs>>
    /\ UNCHANGED <<docVars, promptVars, appVars>>

\* cleanText(cleanText(text))
CleanTwice ==
    /\ cleanPc = "once"
    /\ twice' = cleanText(once)
    /\ cleanPc' = "twice"
    /\ UNCHANGED <<text, once, paragraphs>>
    /\ UNCHANGED <<docVars, promptVars, appVars>>

\* markdownToParagraphs(text), isRtl at its default
MakeParagraphs ==
    /\ cleanPc = "input"
    /\ paragraphs' = markdownToParagraphs(text, FALSE)
    /\ cleanPc' = "paragraphs"
    /\ UNCHANGED <<text, once, twice>>
    /\ UNCHANGED <<docVars, promptVars, appVars>>

NextClean == CleanOnce \/ CleanTwice \/ MakeParagraphs

SpecClean == InitClean /\ [][NextClean]_vars

(***************************************************************************)
(* generateBookContent                                                     *)
(*                                                                         *)
(* A JSON object is a function from the names of the fields it has; the    *)
(* response of the AI service is one of: a rejected call ("error"), no     *)
(* text ("empty"), text JSON.parse rejects ("malformed"), the text "null", *)
(* the text of a number or string ("primitive"), the text of an object.    *)
(***************************************************************************)
FieldNames ==
    {"title", "subtitle", "author", "abstract", "language", "chapters", "references"}

HasField(obj, f) == f \in DOMAIN obj

Without(obj, f) == [g \in DOMAIN obj \ {f} |-> obj[g]]

\* if (!apiKey) throw ...; otherwise ai.models.generateContent is called once
SendsRequest(key) == key

\* a second request after a rejected one
RetriesOnError(resp) == IF resp.kind = "error" THEN 1 ELSE 0

\* catch (error) { console.error(...); throw error; }: no request follows a failure
RequestsAfterFailure(resp) == 0

\* await rejects; !text; JSON.parse throws; null.language throws; assigning
\* language to a primitive throws in a module (strict mode)
ResponseThrows(resp) == resp.kind \in {"error", "empty", "malformed", "null", "primitive"}

\* the requested language put in place of whatever the response gave
LanguageAlwaysMissing(obj) == TRUE

\* !bookData.language
LanguageMissing(obj) == ~HasField(obj, "language") \/ obj.language = ""

\* if (!bookData.language) bookData.language = params.language; return bookData
ReturnedBook(resp, p) ==
    IF LanguageMissing(resp.value)
    THEN [g \in DOMAIN resp.value \cup {"language"} |->
             IF g = "language" THEN p.language ELSE resp.value[g]]
    ELSE resp.value

(***************************************************************************)
(* Bounds and inputs of the application                                    *)
(***************************************************************************)
MaxAttempts == 2
MaxExports == 2

FullBook(t, lang) ==
    [title |-> t,
     subtitle |-> <<Chb>>,
     author |-> <<Cha>>,
     abstract |-> <<Cha>>,
     language |-> lang,
     chapters |-> ChaptersOf(<<1>>, 0),
     references |-> ReferencesOf(1)]

\* complete books; a book short of one field; a book with no chapter, with a
\* chapter that has no sections field, with a second chapter that has none
ResponseObjects ==
    {FullBook(t, l) : t \in {<<ChA>>, <<ChB>>}, l \in {"Arabic", ""}}
        \cup {Without(FullBook(<<ChA>>, "Arabic"), f) : f \in FieldNames}
        \cup {[FullBook(<<ChA>>, "Arabic") EXCEPT !.chapters = c] :
                 c \in {<<>>,
                        <<[title |-> <<ChA>>]>>,
                        ChaptersOf(<<1>>, 0) \o <<[title |-> <<ChB>>]>>}}

Responses ==
    {[kind |-> k, value |-> Null] :
        k \in {"error", "empty", "malformed", "null", "primitive"}}
        \cup {[kind |-> "object", value |-> o] : o \in ResponseObjects}

(***************************************************************************)
(* App, InputForm, BookPreview                                             *)
(***************************************************************************)
\* the InputForm is rendered while generating too
FormRenderedAlsoGenerating(st) == st \in {"IDLE", "GENERATING"}

\* {appState === AppState.IDLE && ( ... <InputForm ... /> ... )}
FormRendered(st) == st = "IDLE"

\* BookPreview's render reads book.chapters[activeChapterIndex], its title
\* and sections, and book.references
RenderThrows(b, idx) ==
    \/ ~HasField(b, "chapters")
    \/ ~HasField(b, "references")
    \/ /\ HasField(b, "chapters")
       /\ \/ idx + 1 > Len(b.chapters)
          \/ ~HasField(b.chapters[idx + 1], "sections")

\* the Generation Failed card and its Try Again button shown while generating too
ErrorRenderedAlsoGenerating(st) == st \in {"ERROR", "GENERATING"}

\* {appState === AppState.ERROR && ( ... Try Again ... )}
ErrorRendered(st) == st = "ERROR"

\* what App renders
Screen ==
    IF crashed THEN "Crashed"
    ELSE IF ~apiKeyValid THEN "ConfigurationError"
    ELSE IF FormRendered(appState) THEN "InputForm"
    ELSE IF ErrorRendered(appState) THEN "GenerationFailed"
    ELSE IF appState = "GENERATING" THEN "Generating"
    ELSE IF appState = "VIEWING" /\ bookData # Null THEN "BookPreview"
    ELSE "Blank"

\* the chapters and references loops of downloadWordDocument run before its try block
BuildThrows(b) ==
    \/ ~HasField(b, "chapters")
    \/ ~HasField(b, "references")
    \/ /\ HasField(b, "chapters")
       /\ \E c \in 1..Len(b.chapters) : ~HasField(b.chapters[c], "sections")

\* the mount effect leaves apiKeyValid as it is
EffectKeepsValid(key, valid) == valid

\* useEffect(() => { if (!process.env.API_KEY) setApiKeyValid(false) }, [])
EffectApiKeyValid(key, valid) == IF ~key THEN FALSE ELSE valid

MountEffect ==
    /\ ~effectRan
    /\ effectRan' = TRUE
    /\ apiKeyValid' = EffectApiKeyValid(apiKey, apiKeyValid)
    /\ UNCHANGED <<cleanVars, docVars, promptVars>>
    /\ UNCHANGED <<apiKey, appState, bookData, errorMsg, params, activeChapterIndex,
                   crashed, calls, packing, submitted, requests, successes, failures,
                   lastResponse, exports, alerts, saves, resets, droppedBook>>

\* the language select's onChange
SetLanguage(l) ==
    /\ Screen = "InputForm"
    /\ params.language # l
    /\ params' = [params EXCEPT !.language = l]
    /\ UNCHANGED <<cleanVars, docVars, promptVars>>
    /\ UNCHANGED <<apiKey, apiKeyValid, effectRan, appState, bookData, errorMsg,
                   activeChapterIndex, crashed, calls, packing, submitted, requests,
                   successes, failures, lastResponse, exports, alerts, saves, resets,
                   droppedBook>>

\* handleSubmit -> handleGenerate(params), up to the await: the state is set,
\* generateBookContent checks the key and sends the request; the InputForm
\* is unmounted and its state is lost
Submit ==
    /\ Screen = "InputForm"
    /\ Len(submitted) < MaxAttempts
    /\ appState' = "GENERATING"
    /\ errorMsg' = NoMsg
    /\ calls' = Append(calls, [params |-> params, sent |-> SendsRequest(apiKey)])
    /\ requests' = requests + (IF SendsRequest(apiKey) THEN 1 ELSE 0)
    /\ submitted' = Append(submitted, params)
    /\ params' = DefaultParams
    /\ UNCHANGED <<cleanVars, docVars, promptVars>>
    /\ UNCHANGED <<apiKey, apiKeyValid, effectRan, bookData, activeChapterIndex, crashed,
                   packing, successes, failures, lastResponse, exports, alerts, saves,
                   resets, droppedBook>>

\* setErrorMsg(e.message): the message tells the cause
CatchMessageOfCause(cause) == cause

\* setErrorMsg("Failed to generate content. ..."), whatever was thrown
CatchMessage(cause) ==
    "Failed to generate content. Please ensure the API Key is valid and try again."

\* the catch block of handleGenerate, given what was thrown
GenerateCatch(cause) ==
    /\ errorMsg' = CatchMessage(cause)
    /\ appState' = "ERROR"
    /\ failures' = failures + 1
    /\ UNCHANGED <<cleanVars, docVars, promptVars>>
    /\ UNCHANGED <<apiKey, apiKeyValid, effectRan, bookData, params, activeChapterIndex,
                   crashed, packing, submitted, successes, lastResponse, exports, alerts,
                   saves, resets, droppedBook>>

\* generateBookContent threw "API Key is missing": handleGenerate's await rejects
MissingKeyRejects(i) ==
    /\ i \in 1..Len(calls)
    /\ ~calls[i].sent
    /\ calls' = [j \in 1..(Len(calls) - 1) |-> IF j < i THEN calls[j] ELSE calls[j + 1]]
    /\ UNCHANGED requests
    /\ GenerateCatch("missing-key")

\* the request fails or its response cannot be used: generateBookContent
\* rethrows, handleGenerate catches
GenerateFails(i, resp) ==
    /\ i \in 1..Len(calls)
    /\ calls[i].sent
    /\ ResponseThrows(resp)
    /\ calls' = [j \in 1..(Len(calls) - 1) |-> IF j < i THEN calls[j] ELSE calls[j + 1]]
    /\ requests' = requests + RequestsAfterFailure(resp)
    /\ GenerateCatch(resp.kind)

\* the response parses to an object: setBookData(data); setAppState(VIEWING),
\* and BookPreview is mounted and rendered
GenerateSucceeds(i, resp) ==
    /\ i \in 1..Len(calls)
    /\ calls[i].sent
    /\ ~ResponseThrows(resp)
    /\ calls' = [j \in 1..(Len(calls) - 1) |-> IF j < i THEN calls[j] ELSE calls[j + 1]]
    /\ bookData' = ReturnedBook(resp, calls[i].params)
    /\ appState' = "VIEWING"
    /\ activeChapterIndex' = 0
    /\ crashed' = (crashed \/ (apiKeyValid /\ RenderThrows(bookData', 0)))
    /\ successes' = successes + 1
    /\ lastResponse' = [kind |-> "object", value |-> resp.value,
                        params |-> calls[i].params]
    /\ UNCHANGED <<cleanVars, docVars, promptVars>>
    /\ UNCHANGED <<apiKey, apiKeyValid, effectRan, errorMsg, params, packing, submitted,
                   requests, failures, exports, alerts, saves, resets, droppedBook>>

\* onClick={() => setAppState(AppState.IDLE)} of the Try Again button
TryAgain ==
    /\ Screen = "GenerationFailed"
    /\ appState' = "IDLE"
    /\ UNCHANGED <<cleanVars, docVars, promptVars>>
    /\ UNCHANGED <<apiKey, apiKeyValid, effectRan, bookData, errorMsg, params,
                   activeChapterIndex, crashed, calls, packing, submitted, requests,
                   successes, failures, lastResponse, exports, alerts, saves, resets,
                   droppedBook>>

\* handleReset leaves bookData as it is
ResetKeepsBook(b) == b

\* setBookData(null) of handleReset
ResetBookData(b) == Null

\* handleReset leaves appState as it is
ResetKeepsState(st) == st

\* setAppState(AppState.IDLE) of handleReset
ResetAppState(st) == "IDLE"

\* handleReset, from BookPreview's Create New button
Reset ==
    /\ Screen = "BookPreview"
    /\ appState' = ResetAppState(appState)
    /\ bookData' = ResetBookData(bookData)
    /\ resets' = resets + 1
    /\ droppedBook' = bookData
    /\ UNCHANGED <<cleanVars, docVars, promptVars>>
    /\ UNCHANGED <<apiKey, apiKeyValid, effectRan, errorMsg, params, activeChapterIndex,
                   crashed, calls, packing, submitted, requests, successes, failures,
                   lastResponse, exports, alerts, saves>>

\* setActiveChapterIndex(idx) from the table of contents, and the render that follows
SelectChapter(idx) ==
    /\ Screen = "BookPreview"
    /\ idx \in 0..(Len(bookData.chapters) - 1)
    /\ idx # activeChapterIndex
    /\ activeChapterIndex' = idx
    /\ crashed' = RenderThrows(bookData, idx)
    /\ UNCHANGED <<cleanVars, docVars, promptVars>>
    /\ UNCHANGED <<apiKey, apiKeyValid, effectRan, appState, bookData, errorMsg, params,
                   calls, packing, submitted, requests, successes, failures, lastResponse,
                   exports, alerts, saves, resets, droppedBook>>

\* handleExport -> downloadWordDocument(bookData), up to await Packer.toBlob(doc);
\* a throw while the document is built leaves the function before its try block
Export ==
    /\ Screen = "BookPreview"
    /\ exports < MaxExports
    /\ exports' = exports + 1
    /\ packing' = IF BuildThrows(bookData) THEN packing ELSE packing + 1
    /\ UNCHANGED <<cleanVars, docVars, promptVars>>
    /\ UNCHANGED <<apiKey, apiKeyValid, effectRan, appState, bookData, errorMsg, params,
                   activeChapterIndex, crashed, calls, submitted, requests, successes,
                   failures, lastResponse, alerts, saves, resets, droppedBook>>

\* Packer.toBlob resolves and saveAs returns
PackSucceeds ==
    /\ packing > 0
    /\ packing' = packing - 1
    /\ saves' = saves + 1
    /\ UNCHANGED <<cleanVars, docVars, promptVars>>
    /\ UNCHANGED <<apiKey, apiKeyValid, effectRan, appState, bookData, errorMsg, params,
                   activeChapterIndex, crashed, calls, submitted, requests, successes,
                   failures, lastResponse, exports, alerts, resets, droppedBook>>

\* the catch block of downloadWordDocument clears the stored book
ExportCatchDropsBook(b) == Null

\* catch (error) { console.error(...); alert(...) }: the stored book is not touched
ExportCatchBook(b) == b

\* Packer.toBlob rejects or saveAs throws: the catch block alerts
PackFails ==
    /\ packing > 0
    /\ packing' = packing - 1
    /\ alerts' = alerts + 1
    /\ bookData' = ExportCatchBook(bookData)
    /\ UNCHANGED <<cleanVars, docVars, promptVars>>
    /\ UNCHANGED <<apiKey, apiKeyValid, effectRan, appState, errorMsg, params,
                   activeChapterIndex, crashed, calls, submitted, requests, successes,
                   failures, lastResponse, exports, saves, resets, droppedBook>>

Init ==
    /\ \E key \in BOOLEAN : AppStart(key)
    /\ CleanIdle
    /\ DocIdle
    /\ PromptIdle

Next ==
    \/ MountEffect
    \/ \E l \in Languages : SetLanguage(l)
    \/ Submit
    \/ \E i \in 1..Len(calls) : MissingKeyRejects(i)
    \/ \E i \in 1..Len(calls), resp \in Responses : GenerateFails(i, resp)
    \/ \E i \in 1..Len(calls), resp \in Responses : GenerateSucceeds(i, resp)
    \/ TryAgain
    \/ Reset
    \/ \E idx \in 0..MaxChapters : SelectChapter(idx)
    \/ Export
    \/ PackSucceeds
    \/ PackFails

Spec == Init /\ [][Next]_vars

(***************************************************************************)
(* generateBookContent: the targets and the response schema of a request   *)
(***************************************************************************)
\* the range inputs of the InputForm: min="1" max="100", min="1" max="50"
MinPageCount == 1
MaxPageCount == 100
MinReferenceCount == 1
MaxReferenceCount == 50

PageCounts == MinPageCount..MaxPageCount

\* the ends of the range and the form's default
ReferenceCounts == {MinReferenceCount, 15, MaxReferenceCount}

\* Math.floor(n / d)
FloorDiv(n, d) == n \div d

\* Math.ceil(n / d), n and d integers, d > 0
CeilDiv(n, d) == IF n % d = 0 THEN n \div d ELSE (n \div d) + 1

MathMax(a, b) == IF a >= b THEN a ELSE b

\* Math.max(3, Math.ceil(params.pageCount / 4))
estimatedChapters(pages) == MathMax(3, CeilDiv(pages, 4))

\* params.pageCount > 30 ? "800-1000" : "500-700"
wordCountPerSection(pages) == IF pages > 30 THEN "800-1000" ELSE "500-700"

\* the schema of one section, of one chapter and of the book: the type, the
\* names of the properties and the required ones; an array schema has its
\* items' schema, and a minItems field only if the code gives one
SectionSchema ==
    [type |-> "OBJECT",
     properties |-> {"title", "content"},
     required |-> {"title", "content"}]

ChapterSchema ==
    [type |-> "OBJECT",
     properties |-> {"title", "sections"},
     required |-> {"title", "sections"},
     sections |-> [type |-> "ARRAY", items |-> SectionSchema]]

bookSchema(chapters, references) ==
    [type |-> "OBJECT",
     properties |-> FieldNames,
     required |-> {"title", "subtitle", "author", "chapters", "references", "language"},
     chapters |-> [type |-> "ARRAY", items |-> ChapterSchema, describedCount |-> chapters],
     references |-> [type |-> "ARRAY", items |-> [type |-> "STRING"],
                     describedCount |-> references]]

InitPrompt ==
    /\ pageCount \in PageCounts
    /\ referenceCount \in ReferenceCounts
    /\ chapterTarget = 0
    /\ wordTarget = ""
    /\ schema = NoSchema
    /\ promptPc = "params"
    /\ CleanIdle
    /\ DocIdle
    /\ AppIdle

\* const estimatedChapters = ...; const wordCountPerSection = ...
DeriveTargets ==
    /\ promptPc = "params"
    /\ chapterTarget' = estimatedChapters(pageCount)
    /\ wordTarget' = wordCountPerSection(pageCount)
    /\ promptPc' = "targets"
    /\ UNCHANGED <<pageCount, referenceCount, schema>>
    /\ UNCHANGED <<cleanVars, docVars, appVars>>

\* const bookSchema: Schema = { ... }
BuildSchema ==
    /\ promptPc = "targets"
    /\ schema' = bookSchema(chapterTarget, referenceCount)
    /\ promptPc' = "schema"
    /\ UNCHANGED <<pageCount, referenceCount, chapterTarget, wordTarget>>
    /\ UNCHANGED <<cleanVars, docVars, appVars>>

NextPrompt == DeriveTargets \/ BuildSchema

SpecPrompt == InitPrompt /\ [][NextPrompt]_vars

(***************************************************************************)
(* Claims about the sanitizer                                              *)
(***************************************************************************)

\* C1: the sanitizer is idempotent: cleaning the output of cleanText again
\* gives the same string, for every input, nested or interleaved markup included.
C1_Idempotent == cleanPc = "twice" => twice = once

\* C2: the output of cleanText holds no C0 control character other than tab,
\* newline and carriage return, no DEL, and no zero-width space, joiner,
\* non-joiner or byte-order mark.
C2_NoControlChars ==
    cleanPc \in {"once", "twice"} =>
        \A i \in 1..Len(once) :
            /\ once[i] \notin (0..31) \ {TAB, LF, CR}
            /\ once[i] # DEL
            /\ once[i] \notin {ZWSP, 8204, ZWJ, BOM}

\* an input holding a control, a DEL and a zero-width character has been cleaned
C2_Witness ==
    /\ cleanPc = "once"
    /\ \E i, j, k \in 1..Len(text) :
           text[i] = DEL /\ text[j] = ZWSP /\ text[k] \in {NUL, BS, VT, US}
    /\ once = <<>>

(***************************************************************************)
(* Claims about the document assembly                                      *)
(***************************************************************************)
Headings(d) == SelectSeq(d, LAMBDA p : p.heading > 0)

\* the headings from the first chapter on: those after "Table of Contents" and "Abstract"
ContentHeadings(d) == SubSeq(Headings(d), 3, Len(Headings(d)))

RECURSIVE SectionCountBefore(_, _)
SectionCountBefore(chapters, c) ==
    IF c <= 1 THEN 0
    ELSE SectionCountBefore(chapters, c - 1) + Len(chapters[c - 1].sections)

\* the place of chapter c's heading among the content headings
HeadingPos(chapters, c) == c + SectionCountBefore(chapters, c)

\* C3: the chapter and section headings of the document come in the order of
\* the input: each chapter's level-1 heading, then its sections' level-2
\* headings in order, chapters in order, none dropped or duplicated, and
\* the References heading after all of them.
C3_HeadingOrder ==
    docPc = "built" =>
        LET hs == ContentHeadings(doc)
            chs == book.chapters
            n == Len(chs)
        IN /\ Len(hs) = HeadingPos(chs, n + 1)
           /\ \A c \in 1..n :
                 /\ hs[HeadingPos(chs, c)].text = cleanText(chs[c].title)
                 /\ hs[HeadingPos(chs, c)].heading = 1
                 /\ \A j \in 1..Len(chs[c].sections) :
                       /\ hs[HeadingPos(chs, c) + j].text =
                              cleanText(chs[c].sections[j].title)
                       /\ hs[HeadingPos(chs, c) + j].heading = 2
           /\ hs[Len(hs)].text = ReferencesText
           /\ hs[Len(hs)].heading = 1

\* chapters [A, B] with A = [S1, S2] and B = [S3] have been assembled into
\* the headings A, S1, S2, B, S3, References
C3_Witness ==
    /\ docPc = "built"
    /\ Len(book.chapters) = 2
    /\ Len(book.chapters[1].sections) = 2
    /\ Len(book.chapters[2].sections) = 1
    /\ [i \in 1..6 |-> ContentHeadings(doc)[i].text] =
           <<<<ChA>>, <<ChS, 49>>, <<ChS, 50>>, <<ChB>>, <<ChS, 51>>, ReferencesText>>

\* the paragraphs of the body: those of the abstract, the chapters and the
\* references, without the page breaks between them
BodyParagraphs(d) ==
    SelectSeq(SubSeq(d, Len(d) - Len(DocumentBody(book)) + 1, Len(d)),
              LAMBDA p : p.kind = "paragraph")

\* C4: in an Arabic book every paragraph of the body (abstract paragraphs,
\* headings, content paragraphs, those of blank lines included, references)
\* carries the bidirectional flag and right alignment; in any other book none does.
C4_RtlPropagation ==
    docPc = "built" =>
        \A i \in 1..Len(BodyParagraphs(doc)) :
            LET p == BodyParagraphs(doc)[i]
            IN IF book.language = "Arabic"
               THEN p.bidirectional /\ p.alignment = "RIGHT"
               ELSE ~p.bidirectional /\ p.alignment # "RIGHT"

(***************************************************************************)
(* Claims about the application                                            *)
(***************************************************************************)
\* the handleGenerate calls whose request to the AI service is awaiting its response
InFlight == {i \in 1..Len(calls) : calls[i].sent}

\* C5: at most one generation call is in flight, and while one is the input
\* form cannot be submitted, whatever submits, Try Agains and resets came before.
C5_OneInFlight ==
    /\ Cardinality(InFlight) <= 1
    /\ InFlight # {} => (appState = "GENERATING" /\ Screen # "InputForm" /\ ~ENABLED Submit)

\* a second generation is in flight, after a first one was viewed and reset
C5_Witness ==
    /\ Cardinality(InFlight) = 1
    /\ Len(submitted) = 2
    /\ resets = 1

\* C6: with a credential, every generation attempt sends exactly one request
\* to the AI service, none is sent again after a failure, and every attempt
\* that is over ended in exactly one success or one failure.
C6_OneRequestPerAttempt ==
    /\ apiKey => requests = Len(submitted)
    /\ Len(submitted) = successes + failures + Len(calls)

\* two attempts with a credential have both failed, on two requests
C6_Witness ==
    /\ apiKey
    /\ failures = 2
    /\ requests = 2
    /\ appState = "ERROR"

\* every BookStructure field is there, every chapter has a title and its
\* sections, every section a title and a content
CompleteBook(b) ==
    /\ \A f \in FieldNames : HasField(b, f)
    /\ \A c \in 1..Len(b.chapters) :
          /\ HasField(b.chapters[c], "title")
          /\ HasField(b.chapters[c], "sections")
          /\ \A j \in 1..Len(b.chapters[c].sections) :
                /\ HasField(b.chapters[c].sections[j], "title")
                /\ HasField(b.chapters[c].sections[j], "content")

\* C7: generation is all-or-nothing: a book is stored, and the app is
\* VIEWING, only with every BookStructure field present; a response short
\* of the schema ends in ERROR with no book stored.
C7_AllOrNothing ==
    /\ bookData # Null => CompleteBook(bookData)
    /\ appState = "VIEWING" => bookData # Null
    /\ appState = "ERROR" => bookData = Null

\* C8: a failure of packing or saving is reported by exactly one alert and
\* changes neither appState nor bookData nor the requests sent: the book
\* that could be exported before can be exported again.
C8_ExportFailureFrame ==
    [][alerts' # alerts =>
          /\ alerts' = alerts + 1
          /\ appState' = appState
          /\ bookData' = bookData
          /\ requests' = requests
          /\ calls' = calls
          /\ (Screen = "BookPreview" => Screen' = "BookPreview")]_vars

\* one generation, one export that failed and one that saved the file
C8_Witness ==
    /\ alerts = 1
    /\ saves = 1
    /\ exports = 2
    /\ requests = 1
    /\ appState = "VIEWING"
    /\ bookData # Null

\* the stored book is what the last response gave: its fields and no
\* others, with the language of the call's parameters where it gave none
FreshBook ==
    /\ lastResponse.kind = "object"
    /\ DOMAIN bookData = DOMAIN lastResponse.value \cup {"language"}
    /\ \A f \in DOMAIN lastResponse.value \ {"language"} :
          bookData[f] = lastResponse.value[f]
    /\ \/ /\ HasField(lastResponse.value, "language")
          /\ bookData.language = lastResponse.value.language
       \/ bookData.language = lastResponse.params.language

\* C9: a reset discards the stored book (bookData null, app IDLE); a later
\* submission sends a new request, and the book its response gives replaces
\* the stored one with no field carried over.
C9_ResetDiscards ==
    [][/\ resets' # resets => (bookData' = Null /\ appState' = "IDLE")
       /\ (Len(submitted') # Len(submitted) /\ apiKey) => requests' = requests + 1
       /\ successes' # successes => FreshBook']_vars

\* after a book with a subtitle was reset, the same parameters were
\* submitted again and the book now shown has no subtitle
C9_Witness ==
    /\ resets = 1
    /\ appState = "VIEWING"
    /\ requests = 2
    /\ Len(submitted) = 2
    /\ submitted[1] = submitted[2]
    /\ HasField(droppedBook, "subtitle")
    /\ ~HasField(bookData, "subtitle")

C11_ChapterTarget ==
    promptPc \in {"targets", "schema"} =>
        /\ chapterTarget >= 3
        /\ 4 * chapterTarget >= pageCount
        /\ chapterTarget > 3 => 4 * (chapterTarget - 1) < pageCount
        /\ pageCount \in {1, 8} => chapterTarget = 3
        /\ pageCount = 20 => chapterTarget = 5
        /\ pageCount = 100 => chapterTarget = 25

\* the target of a page count that is no multiple of four and beyond the floor of three
C11_Witness ==
    /\ promptPc = "targets"
    /\ pageCount = 21
    /\ chapterTarget = 6

\* C14: the response schema marks as mandatory the title, subtitle, author,
\* abstract and language, a non-empty chapters array whose items each need a
\* title and a non-empty sections array whose items each need a title and a
\* content, and a references list.
C14_SchemaMandates ==
    promptPc = "schema" =>
        /\ {"title", "subtitle", "author", "abstract", "language",
            "chapters", "references"} \subseteq schema.required
        /\ HasField(schema.chapters, "minItems") /\ schema.chapters.minItems >= 1
        /\ {"title", "sections"} \subseteq schema.chapters.items.required
        /\ HasField(schema.chapters.items.sections, "minItems")
        /\ schema.chapters.items.sections.minItems >= 1
        /\ {"title", "content"} \subseteq schema.chapters.items.sections.items.required

C13_SuppliedLanguageKept ==
    (appState = "VIEWING" /\ lastResponse.kind = "object") =>
        (HasField(lastResponse.value, "language") =>
            bookData.language = lastResponse.value.language)

\* C13: the book returned carries the requested language when the response
\* has no language or an empty one, the response's own language when that is
\* not empty, and every other field exactly as the response gave it.
C13_LanguageFallback ==
    (appState = "VIEWING" /\ lastResponse.kind = "object") =>
        LET v == lastResponse.value
            p == lastResponse.params
        IN /\ (~HasField(v, "language") \/ v.language = "") =>
                  bookData.language = p.language
           /\ (HasField(v, "language") /\ v.language # "") =>
                  bookData.language = v.language
           /\ \A f \in FieldNames \ {"language"} :
                  /\ HasField(bookData, f) <=> HasField(v, f)
                  /\ HasField(v, f) => bookData[f] = v[f]

\* a response without a language, to a request for Arabic made after the
\* form's language was changed, gave an Arabic book with its other fields
C13_Witness ==
    /\ appState = "VIEWING"
    /\ lastResponse.kind = "object"
    /\ ~HasField(lastResponse.value, "language")
    /\ lastResponse.params.language = "Arabic"
    /\ bookData.language = "Arabic"
    /\ bookData.title = lastResponse.value.title

\* C20: while the app is GENERATING neither submitting, Try Again nor reset
\* is available, and appState, bookData and errorMsg change only when the
\* call in flight resolves: with a book, to VIEWING, or with a failure, to
\* ERROR.
C20_GeneratingFrame ==
    /\ [](appState = "GENERATING" =>
            ~ENABLED Submit /\ ~ENABLED TryAgain /\ ~ENABLED Reset)
    /\ [][(/\ appState = "GENERATING"
           /\ <<appState, bookData, errorMsg>>' # <<appState, bookData, errorMsg>>) =>
              \/ successes' = successes + 1 /\ failures' = failures /\ appState' = "VIEWING"
              \/ failures' = failures + 1 /\ successes' = successes /\ appState' = "ERROR"
                     /\ bookData' = bookData]_vars

\* a second attempt is in flight while an export of the first book, started
\* before the reset, has ended: the app is still GENERATING
C20_Witness ==
    /\ appState = "GENERATING"
    /\ Len(calls) = 1
    /\ Len(submitted) = 2
    /\ exports = 1
    /\ packing = 0
    /\ bookData = Null

(***************************************************************************)
(* Claims about the sanitizer's markup rules and the paragraphs            *)
(***************************************************************************)

\* the lines of a text: the fields between its newlines, one more than it has newlines
RECURSIVE EachLineFrom(_, _, _)
EachLineFrom(s, i, cur) ==
    IF i > Len(s) THEN <<cur>>
    ELSE IF s[i] = LF THEN <<cur>> \o EachLineFrom(s, i + 1, <<>>)
    ELSE EachLineFrom(s, i + 1, Append(cur, s[i]))

\* C15: markdownToParagraphs gives one paragraph per line of the sanitized
\* content, in order: a non-empty line gives a paragraph of its text, and
\* every blank line, one between two consecutive newlines included, gives an
\* empty paragraph.
C15_ParagraphPerLine ==
    cleanPc = "paragraphs" =>
        LET lines == EachLineFrom(cleanText(text), 1, <<>>)
        IN /\ Len(paragraphs) = Len(lines)
           /\ \A i \in 1..Len(lines) :
                  i <= Len(paragraphs) => paragraphs[i].text = Trim(lines[i])

\* a text with one piece of markup around or before a markup-free t, and t
UnwrapCases ==
    UNION {{<<BoldOf(t), t>>, <<ItalicOf(t), t>>} \cup
           {<<HeaderOf(k, t), t>> : k \in 1..6} \cup
           {<<LinkOf(t, u), t>> : u \in PlainTexts} : t \in PlainTexts}

\* C16: cleanText gives t for **t**, for *t*, for t after a heading marker
\* of one to six '#' and a space, and for [t](u); the text "**bold** and *em*
\* and # Heading and [text](url)" becomes "bold and em and Heading and text".
C16_MarkdownUnwrapped ==
    cleanPc = "once" =>
        /\ text = MarkdownFixture =>
               once =
                   <<98, 111, 108, 100, 32, 97, 110, 100, 32, 101, 109, 32, 97,
                   110, 100, 32, 72, 101, 97, 100, 105, 110, 103, 32, 97, 110,
                   100, 32, 116, 101, 120, 116>>
        /\ \A c \in UnwrapCases : text = c[1] => once = c[2]

\* the fixture has been cleaned to a text without any of its markup
C16_Witness ==
    /\ cleanPc = "once"
    /\ text = MarkdownFixture
    /\ Len(once) = 32
    /\ \A i \in 1..Len(once) : once[i] \notin {STAR, HASH, LBRACKET, RBRACKET, LPAREN, RPAREN}

\* C17: cleanText removes every backtick, and a text t placed between two
\* backticks comes out with its characters unchanged, asterisks, '#' and
\* brackets included.
C17_InlineCodeKept ==
    cleanPc \in {"once", "twice"} =>
        /\ \A i \in 1..Len(once) : once[i] # BACKTICK
        /\ \A t \in StringsUpTo(MarkupAlphabet \ {BACKTICK, SP, LF}, MaxMarkupLen) :
               text = CodeOf(t) => once = t

(***************************************************************************)
(* Claims about the exported file                                          *)
(***************************************************************************)

\* C18: the exported file's name is the sanitized title with every maximal
\* run of characters outside [A-Za-z0-9_] replaced by one underscore,
\* followed by "_AntoniBookCraft.docx"; for 'Zakat on Digital Assets' it is
\* "Zakat_on_Digital_Assets_AntoniBookCraft.docx".
C18_FileName ==
    docPc = "saved" =>
        LET word == (48..57) \cup (65..90) \cup (97..122) \cup {95}
            alnum == word \ {95}
            t == cleanText(book.title)
            n == Len(filename) - 21
            stem == SubSeq(filename, 1, n)
            runs == {i \in 1..Len(t) : t[i] \notin word /\ (i = 1 \/ t[i - 1] \in word)}
        IN /\ n >= 0
           /\ SubSeq(filename, n + 1, Len(filename)) =
                  <<95, 65, 110, 116, 111, 110, 105, 66, 111, 111, 107, 67,
                    114, 97, 102, 116, 46, 100, 111, 99, 120>>
           /\ \A i \in 1..n : stem[i] \in word
           /\ SelectSeq(stem, LAMBDA c : c \in alnum) = SelectSeq(t, LAMBDA c : c \in alnum)
           /\ Cardinality({i \in 1..n : stem[i] = 95}) =
                  Cardinality({i \in 1..Len(t) : t[i] = 95}) + Cardinality(runs)
           /\ book.title = ZakatTitle =>
                  stem = <<90, 97, 107, 97, 116, 95, 111, 110, 95, 68, 105, 103,
                           105, 116, 97, 108, 95, 65, 115, 115, 101, 116, 115>>

\* the fixture's file has been named
C18_Witness ==
    /\ docPc = "saved"
    /\ book.title = ZakatTitle
    /\ Len(filename) = 44
    /\ filename[6] = UNDERSCORE
    /\ filename[9] = UNDERSCORE

\* C19: the document ends with a page break, the References heading and one
\* bulleted paragraph per entry of the book's reference list, in order and
\* sanitized: as many as the list has, be that none, whatever count was
\* requested.
C19_ReferencesBlock ==
    docPc \in {"built", "saved"} =>
        LET n == Len(book.references)
            m == Len(doc)
        IN /\ m >= n + 2
           /\ doc[m - n - 1].kind = "pagebreak"
           /\ doc[m - n].heading = 1
           /\ doc[m - n].text = <<82, 101, 102, 101, 114, 101, 110, 99, 101, 115>>
           /\ \A i \in 1..n :
                  /\ doc[m - n + i].kind = "paragraph"
                  /\ doc[m - n + i].heading = 0
                  /\ doc[m - n + i].text = cleanText(book.references[i])
           /\ {i \in 1..m : doc[i].bullet} = (m - n + 1)..m

\* a document with two distinct references, sanitized and in order, was built
C19_Witness ==
    /\ docPc = "built"
    /\ Len(book.references) = 2
    /\ doc[Len(doc) - 1].text = <<82, 49>>
    /\ doc[Len(doc)].text = <<82, 50>>
    /\ doc[Len(doc)].bullet

(***************************************************************************)
(* Claims about the application's state as a whole                         *)
(***************************************************************************)

\* C21: in every reachable state of the App a book is stored when appState
\* is VIEWING, none is stored when it is IDLE or ERROR, an error message is
\* set when it is ERROR, and an export can be started only while a book is
\* stored.
C21_StateInvariants ==
    /\ appState = "VIEWING" => bookData # Null
    /\ appState \in {"IDLE", "ERROR"} => bookData = Null
    /\ appState = "ERROR" => errorMsg # NoMsg
    /\ ENABLED Export => bookData # Null

\* a book was shown and exported, then reset, and the next attempt failed:
\* the app is in ERROR with a message and no book
C21_Witness ==
    /\ exports >= 1
    /\ resets = 1
    /\ failures = 1
    /\ appState = "ERROR"
    /\ bookData = Null
    /\ droppedBook # Null
    /\ errorMsg # NoMsg

=============================================================================
